---- MODULE Spec2Model ----
(***************************************************************************)
(* GraphPlot (src/src/plots/graph.ts) and the TreePlot it delegates tree   *)
(* rendering to (src/src/plots/tree.ts), as a state machine.               *)
(*                                                                         *)
(* A vertex record carries the fields of IGraphVertex that the code reads  *)
(* or writes: id, label (standing for the caller-owned fields id, label,   *)
(* expanded, selected, style, which the data setter always takes from the  *)
(* new record) and the d3.SimulationNodeDatum fields x, y, vx, vy, fx, fy. *)
(* A numeric field that is absent (undefined) is NoVal, one that is null   *)
(* is NullVal.  An edge endpoint is either a vertex id (a string in the    *)
(* code) or a resolved vertex reference (an object): [ref, id].            *)
(***************************************************************************)
EXTENDS Integers, Sequences, FiniteSets, TLC

\* ------------------------------------------------------------------ bounds
MaxDataEdges == 1    \* edges of a data set handed to the data setter
MaxForestEdges == 3  \* edges of a graph handed to the forest builder
MaxTicks == 1        \* simulation steps in one behaviour
MaxSvg   == 2        \* svg elements one plot leaves in the container
MaxCoord == 20       \* |coordinate| the simulation may reach
MaxGestures == 2     \* pointer and wheel events on one svg in one behaviour
MaxForces == 2       \* forces assigned through the setters in one behaviour
MaxClicks == 3       \* clicks of one click sequence

\* ------------------------------------------------------------------ values
NoVal   == -100      \* the field is absent (undefined)
NullVal == -101      \* the field is null

IdOrder == <<"a", "b", "c">>    \* the vertex ids, in the order the caller lists them

TreeLayouts == {"none", "horizontal", "vertical", "radial/circular"}

IsSet(v) == v # NoVal /\ v # NullVal      \* JS: v != null

RECURSIVE SeqOfSet(_)
SeqOfSet(S) ==
  IF S = {} THEN <<>>
  ELSE LET e == CHOOSE e \in S : TRUE IN <<e>> \o SeqOfSet(S \ {e})

VertexIds(vs) == {vs[i].id : i \in DOMAIN vs}

\* ------------------------------------------------------------------ d3-force
\* d3.forceSimulation places a node without a position on a phyllotaxis
\* spiral: radius 10*sqrt(0.5+i), angle i*pi*(3-sqrt 5), rounded here.
InitX(i) == CASE i = 0 -> 7 [] i = 1 -> -9 [] i = 2 -> 1 [] OTHER -> 12
InitY(i) == CASE i = 0 -> 0 [] i = 1 -> 8 [] i = 2 -> -16 [] OTHER -> 14

\* simulation.nodes(): initializeNodes on every node of the array.
InitializeNode(n, i) ==
  LET x1 == IF IsSet(n.fx) THEN n.fx ELSE n.x
      y1 == IF IsSet(n.fy) THEN n.fy ELSE n.y
      noPos == x1 = NoVal \/ y1 = NoVal
      noVel == n.vx = NoVal \/ n.vy = NoVal
  IN [n EXCEPT !.x  = IF noPos THEN InitX(i - 1) ELSE x1,
               !.y  = IF noPos THEN InitY(i - 1) ELSE y1,
               !.vx = IF noVel THEN 0 ELSE n.vx,
               !.vy = IF noVel THEN 0 ELSE n.vy]

InitializeNodes(nodes) == [i \in DOMAIN nodes |-> InitializeNode(nodes[i], i)]

\* forceLink.links(): an endpoint that is not an object is looked up by id
\* and replaced by the node; an id without a node throws "node not found".
LinkFails(edges, nodes) ==
  \E i \in DOMAIN edges :
     \/ (~edges[i].source.ref /\ edges[i].source.id \notin VertexIds(nodes))
     \/ (~edges[i].target.ref /\ edges[i].target.id \notin VertexIds(nodes))

ResolveLinks(edges) ==
  [i \in DOMAIN edges |->
     [source |-> [ref |-> TRUE, id |-> edges[i].source.id],
      target |-> [ref |-> TRUE, id |-> edges[i].target.id]]]

\* ------------------------------------------------------------------ forest
\* What withChildren returns when the recursion never returns: the engine
\* throws RangeError (maximum call stack size exceeded).
StackOverflow == [id |-> "RangeError", label |-> NoVal, children |-> <<>>]

\* (source as IGraphVertex).id === parent.id && (target as IGraphVertex).id
\* === child.id : the id of a string endpoint is undefined and matches nothing.
IsChildEdge(e, parent, child) ==
  /\ e.source.ref /\ e.source.id = parent.id
  /\ e.target.ref /\ e.target.id = child.id

IsIncomingEdge(e, vertex) == e.target.ref /\ e.target.id = vertex.id

\* withChildren has no visited set: a call chain longer than the vertex list
\* repeats a vertex and therefore never ends.
RECURSIVE withChildren(_, _, _, _)
withChildren(parent, vertices, edges, depth) ==
  IF depth > Len(vertices) THEN StackOverflow
  ELSE LET kids == SelectSeq(vertices,
                     LAMBDA child : \E i \in DOMAIN edges :
                                       IsChildEdge(edges[i], parent, child))
       IN [id       |-> parent.id,
           label    |-> parent.label,
           children |-> [i \in DOMAIN kids |->
                           withChildren(kids[i], vertices, edges, depth + 1)]]

RECURSIVE Overflows(_)
Overflows(tree) ==
  \/ tree = StackOverflow
  \/ \E i \in DOMAIN tree.children : Overflows(tree.children[i])

BuildTreeData(vertices, edges) ==
  LET roots == SelectSeq(vertices,
                 LAMBDA vertex : ~\E i \in DOMAIN edges :
                                     IsIncomingEdge(edges[i], vertex))
  IN [i \in DOMAIN roots |-> withChildren(roots[i], vertices, edges, 1)]

ForestOverflows(forest) == \E i \in DOMAIN forest : Overflows(forest[i])

\* ------------------------------------------------------------------ numbers
\* A JS number of the viewport arithmetic is a fraction <<n, d>> in lowest
\* terms with d > 0; a division by zero leaves d = 0 (Infinity or NaN).
Abs(i) == IF i < 0 THEN -i ELSE i

Sign(i) == IF i < 0 THEN -1 ELSE IF i > 0 THEN 1 ELSE 0

RECURSIVE GCD(_, _)
GCD(a, b) == IF b = 0 THEN a ELSE GCD(b, a % b)

Frac(n, d) ==
  IF d = 0 THEN <<Sign(n), 0>>
  ELSE LET g == GCD(Abs(n), Abs(d)) IN <<Sign(d) * (n \div g), Abs(d) \div g>>

Num(i) == <<i, 1>>

Plus(a, b) == Frac(a[1] * b[2] + b[1] * a[2], a[2] * b[2])

Times(a, b) == Frac(a[1] * b[1], a[2] * b[2])

Over(a, b) == Frac(a[1] * b[2], a[2] * b[1])

Minus(a) == <<-a[1], a[2]>>

MathAbs(a) == <<Abs(a[1]), a[2]>>

MathSign(a) == Num(Sign(a[1]))

Leq(a, b) == a[1] * b[2] <= b[1] * a[2]

Less(a, b) == a[1] * b[2] < b[1] * a[2]

IsFinite(a) == a[2] # 0

MathMax(a, b) == IF Leq(a, b) THEN b ELSE a

\* ------------------------------------------------------------------ d3-zoom
\* d3.zoomIdentity and the methods of a d3 Transform {k, x, y}.
ZoomIdentity == [k |-> Num(1), x |-> Num(0), y |-> Num(0)]

\* No transform: the element has no __zoom, the attribute was never written.
NoTransform == [k |-> <<0, 0>>, x |-> <<0, 0>>, y |-> <<0, 0>>]

\* transform.scale(k)
Scale(t, k) == [t EXCEPT !.k = Times(t.k, k)]

\* transform.translate(x, y)
Translate(t, x, y) ==
  [t EXCEPT !.x = Plus(t.x, Times(t.k, x)), !.y = Plus(t.y, Times(t.k, y))]

\* d3.zoomTransform(node) on the render group: the __zoom of the group if it
\* has one, else that of the nearest ancestor that has one, the svg.
ZoomTransform(svgZoom, groupZoom) ==
  IF groupZoom # NoTransform THEN groupZoom ELSE svgZoom

\* The zoom filter without its test of the event type.
FilterButton(event) == event.button = 0

\* The zoom filter of both plots: !event.button && event.type !== "dblclick".
Filter(event) == event.button = 0 /\ event.type # "dblclick"

\* What the zoom behaviour makes of an event it accepts: a drag moves the
\* view by the pointer's movement, a wheel step and a double click multiply
\* the scale about the pointer, which rests on the centre of the view box, the
\* origin.
Gestured(t, event) ==
  IF event.type \in {"wheel", "dblclick"}
  THEN [k |-> Times(t.k, event.factor),
        x |-> Times(t.x, event.factor),
        y |-> Times(t.y, event.factor)]
  ELSE [t EXCEPT !.x = Plus(t.x, Num(event.dx)), !.y = Plus(t.y, Num(event.dy))]

\* ------------------------------------------------------------------ locators
DefaultSize == [width |-> 800, height |-> 600]    \* createSvg's defaultSize

FillRadius == 15     \* v.style?.fillRadius ?? 15, the records carry no style

Inset == 15          \* the margin a locator keeps from the edge it is clamped to

NoLocator == [id |-> "", x |-> <<0, 0>>, y |-> <<0, 0>>]

\* The screen point of a vertex under a transform.
ScreenX(v, t) == Plus(t.x, Times(t.k, Num(v.x)))

ScreenY(v, t) == Plus(t.y, Times(t.k, Num(v.y)))

\* The test for a disc that lies within the viewport as a whole.
InViewportWhole(sx, sy, r, size) ==
  /\ Leq(Frac(-size.width, 2), Plus(sx, Num(-r)))
  /\ Leq(Plus(sx, Num(r)), Frac(size.width, 2))
  /\ Leq(Frac(-size.height, 2), Plus(sy, Num(-r)))
  /\ Leq(Plus(sy, Num(r)), Frac(size.height, 2))

\* The test that ends calcLocator without a locator.
InViewport(sx, sy, r, size) ==
  /\ Leq(Frac(-size.width, 2), Plus(sx, Num(r)))
  /\ Less(Plus(sx, Num(-r)), Frac(size.width, 2))
  /\ Leq(Frac(-size.height, 2), Plus(sy, Num(r)))
  /\ Less(Plus(sy, Num(-r)), Frac(size.height, 2))

\* The branch of calcLocator that clamps to the top or bottom edge.
VerticalClamp(sx, sy, size) ==
  Leq(Times(MathAbs(sx), Num(size.height)), Times(MathAbs(sy), Num(size.width)))

\* calcLocator with the two sides of its branch test exchanged.
calcLocatorSwapped(v, t, size) ==
  IF v.x = NoVal \/ v.y = NoVal THEN NoLocator
  ELSE LET sx == ScreenX(v, t)
           sy == ScreenY(v, t)
       IN IF InViewport(sx, sy, FillRadius, size) THEN NoLocator
          ELSE IF VerticalClamp(sy, sx, size)
          THEN [id |-> v.id,
                x |-> Over(Times(Frac(size.height, 2), sx), MathAbs(sy)),
                y |-> Times(MathSign(sy), Plus(Frac(size.height, 2), Num(-Inset)))]
          ELSE [id |-> v.id,
                x |-> Times(MathSign(sx), Plus(Frac(size.width, 2), Num(-Inset))),
                y |-> Over(Times(Frac(size.width, 2), sy), MathAbs(sx))]

\* calcLocator of GraphPlot.tick: the locator of the vertex v under the
\* transform t in a viewport of the given size, NoLocator for null.
calcLocator(v, t, size) ==
  IF v.x = NoVal \/ v.y = NoVal THEN NoLocator
  ELSE LET sx == ScreenX(v, t)
           sy == ScreenY(v, t)
       IN IF InViewport(sx, sy, FillRadius, size) THEN NoLocator
          ELSE IF VerticalClamp(sx, sy, size)
          THEN [id |-> v.id,
                x |-> Over(Times(Frac(size.height, 2), sx), MathAbs(sy)),
                y |-> Times(MathSign(sy), Plus(Frac(size.height, 2), Num(-Inset)))]
          ELSE [id |-> v.id,
                x |-> Times(MathSign(sx), Plus(Frac(size.width, 2), Num(-Inset))),
                y |-> Over(Times(Frac(size.width, 2), sy), MathAbs(sx))]

\* this._data.vertices.map(calcLocator).filter((l) => l !== null)
Locators(vertices, t, size) ==
  SelectSeq([i \in DOMAIN vertices |-> calcLocator(vertices[i], t, size)],
            LAMBDA l : l # NoLocator)

\* d3.extent over the values that are defined: <<min, max>>, or <<NoVal, NoVal>>
\* when there is none.
Extent(values) ==
  LET S == {v \in values : v # NoVal}
  IN IF S = {} THEN <<NoVal, NoVal>>
     ELSE <<CHOOSE m \in S : \A v \in S : m <= v, CHOOSE m \in S : \A v \in S : v <= m>>

\* The transform zoomToFit asks for: the identity scaled by 1.25 times the
\* larger of the bounds' width over the viewport's and height over the
\* viewport's, then translated by the negated centre of the bounds.
FitTransform(xExtent, yExtent, size) ==
  Translate(Scale(ZoomIdentity,
                  Times(Frac(5, 4),
                        MathMax(Frac(xExtent[2] - xExtent[1], size.width),
                                Frac(yExtent[2] - yExtent[1], size.height)))),
            Frac(-(xExtent[1] + xExtent[2]), 2),
            Frac(-(yExtent[1] + yExtent[2]), 2))

\* ------------------------------------------------------------------ TreePlot
\* d3.ascending on the labels, as a stable insertion sort of the children.
RECURSIVE InsertByLabel(_, _)
InsertByLabel(sorted, t) ==
  IF sorted = <<>> THEN <<t>>
  ELSE LET last == sorted[Len(sorted)]
       IN IF last.label > t.label
          THEN Append(InsertByLabel(SubSeq(sorted, 1, Len(sorted) - 1), t), last)
          ELSE Append(sorted, t)

SortByLabel(children) ==
  LET F[i \in 0..Len(children)] ==
        IF i = 0 THEN <<>> ELSE InsertByLabel(F[i-1], children[i])
  IN F[Len(children)]

\* root.descendants() / root.links(): breadth-first over the sorted hierarchy.
\* A queue item is a tree with the id of its parent ("" for the root).
RECURSIVE Descendants(_)
Descendants(queue) ==
  IF queue = <<>> THEN <<>>
  ELSE LET h    == Head(queue)
           kids == SortByLabel(h.tree.children)
       IN <<[id |-> h.tree.id, parent |-> h.parent]>>
          \o Descendants(Tail(queue)
                \o [i \in DOMAIN kids |-> [tree |-> kids[i], parent |-> h.tree.id]])

Reverse(s) == [i \in DOMAIN s |-> s[Len(s) + 1 - i]]

\* The size setupHierarchyTree gives one tree of at most 40 leaves, rounded:
\* radius 225 * 40 / 1.5 = 6000, in radial mode divided by sqrt(15) * pi;
\* treeWidth = radius / sqrt(15), treeHeight = radius / 15, maxSize the larger
\* of the two, in radial mode the diameter.
TreeSize(layout) ==
  IF layout = "radial/circular"
  THEN [treeWidth |-> 127, treeHeight |-> 33, maxSize |-> 986]
  ELSE [treeWidth |-> 1549, treeHeight |-> 400, maxSize |-> 1549]

Padding == 200

Max2(a, b) == IF a >= b THEN a ELSE b

\* The radius setupHierarchyTree gives one tree of at most 40 leaves, rounded.
TreeRadius(layout) == IF layout = "radial/circular" THEN 493 ELSE 6000

\* TreePlot.setupHierarchyTree: pushes the root, its descendants and its links
\* onto _roots, _nodes and _links; an entry records the mode it was laid out
\* in. The tree is laid out from 0 along the stacking axis and moved by
\* offsetY; in radial mode its centre is moved to offsetY plus, unless offsetY
\* is 0, the radius.
TreeSetupHierarchyTree(tp, tree, offsetY) ==
  LET all   == Descendants(<<[tree |-> tree, parent |-> ""]>>)
      nodes == [i \in DOMAIN all |-> [id |-> all[i].id, layout |-> tp.treeLayout]]
      lnk   == SelectSeq(all, LAMBDA n : n.parent # "")
      links == [i \in DOMAIN lnk |->
                  [source |-> lnk[i].parent, target |-> lnk[i].id,
                   layout |-> tp.treeLayout]]
      offset == IF tp.treeLayout = "radial/circular"
                THEN offsetY + (IF offsetY > 0 THEN TreeRadius(tp.treeLayout) ELSE 0)
                ELSE offsetY
  IN [tp EXCEPT !.roots = Append(@, [id |-> tree.id, layout |-> tp.treeLayout,
                                     offset |-> offset]),
                !.nodes = @ \o nodes,
                !.links = @ \o links]

\* The radial content box with the height started at the padding, as the other
\* modes start it.
ContentBoxPadded(tp) ==
  LET vertical == tp.treeLayout = "vertical"
      size == TreeSize(tp.treeLayout)
      F[i \in 0..Len(tp.data)] ==
        IF i = 0
        THEN [contentWidth |-> Padding, contentHeight |-> Padding, maxContentSize |-> 1]
        ELSE LET cw == Max2(F[i-1].contentWidth,
                            IF vertical THEN size.treeWidth ELSE size.treeHeight)
                 ch == F[i-1].contentHeight
                       + (IF vertical THEN size.treeHeight ELSE size.treeWidth) + Padding
             IN [contentWidth |-> cw, contentHeight |-> ch,
                 maxContentSize |-> Max2(Max2(cw, ch), size.maxSize)]
  IN F[Len(tp.data)]

\* The content box TreePlot.setupElements accumulates over the trees of the
\* forest, from which it derives the initial zoom.
ContentBox(tp) ==
  LET vertical == tp.treeLayout = "vertical"
      radial == tp.treeLayout = "radial/circular"
      size == TreeSize(tp.treeLayout)
      F[i \in 0..Len(tp.data)] ==
        IF i = 0
        THEN [contentWidth |-> Padding,
              contentHeight |-> IF radial THEN 0 ELSE Padding,
              maxContentSize |-> 1]
        ELSE LET cw == Max2(F[i-1].contentWidth,
                            IF vertical THEN size.treeWidth ELSE size.treeHeight)
                 ch == F[i-1].contentHeight
                       + (IF vertical THEN size.treeHeight ELSE size.treeWidth) + Padding
             IN [contentWidth |-> cw, contentHeight |-> ch,
                 maxContentSize |-> Max2(Max2(cw, ch), size.maxSize)]
  IN F[Len(tp.data)]

\* The zoom TreePlot.setupElements starts the new svg with: the content scaled
\* to the viewport and centred along the axis the trees are stacked on.
TreeInitialZoom(tp) ==
  LET box == ContentBox(tp)
      viewPortMax == IF tp.treeLayout = "vertical" THEN tp.size.width
                     ELSE IF tp.size.width <= tp.size.height THEN tp.size.width
                     ELSE tp.size.height
      scaleRate == Frac(viewPortMax, box.maxContentSize)
      x == IF tp.treeLayout = "horizontal"
           THEN Times(Plus(Num(tp.size.width),
                           Minus(Times(Num(box.contentWidth), scaleRate))), Frac(1, 2))
           ELSE Num(0)
      y == IF tp.treeLayout = "vertical"
           THEN Times(Plus(Num(tp.size.height),
                           Minus(Times(Num(box.contentHeight), scaleRate))), Frac(1, 2))
           ELSE Num(0)
  IN Scale(Translate(ZoomIdentity, x, y), scaleRate)

TreeDelete(tp) ==
  IF tp.svgSel THEN [tp EXCEPT !.svgSel = FALSE, !.svgs = @ - 1] ELSE tp

\* TreePlot.setupElements
TreeSetupElements(tp) ==
  IF tp.treeLayout = "none" THEN TreeDelete(tp)
  ELSE IF tp.container
  THEN LET radial == tp.treeLayout = "radial/circular"
           size == TreeSize(tp.treeLayout)
           F[i \in 0..Len(tp.data)] ==
             IF i = 0
             THEN [tp |-> tp, contentHeight |-> IF radial THEN 0 ELSE Padding,
                   prevMaxSize |-> 0]
             ELSE LET offsetY == IF radial
                                 THEN F[i-1].prevMaxSize \div 2 + (i - 1) * Padding
                                 ELSE F[i-1].contentHeight
                  IN [tp |-> TreeSetupHierarchyTree(F[i-1].tp, tp.data[i], offsetY),
                      contentHeight |-> F[i-1].contentHeight + Padding
                         + (IF tp.treeLayout = "vertical"
                            THEN size.treeHeight ELSE size.treeWidth),
                      prevMaxSize |-> F[i-1].prevMaxSize + size.maxSize]
           built == F[Len(tp.data)].tp
       IN [built EXCEPT !.svgSel = TRUE,
                        !.svgs   = @ + 1,
                        !.zoom   = TreeInitialZoom(tp),
                        !.nodes  = IF tp.treeLayout = "radial/circular"
                                   THEN Reverse(@) ELSE @,
                        !.bound  = FALSE]
  ELSE tp

\* new TreePlot(data, layout, container)
NewTreePlot(forest, hasContainer, size) ==
  TreeSetupElements(
    [exists |-> TRUE, treeLayout |-> "none", container |-> hasContainer,
     size |-> size, zoom |-> NoTransform,
     data |-> forest, svgSel |-> FALSE, svgs |-> 0,
     roots |-> <<>>, nodes |-> <<>>, links |-> <<>>, bound |-> FALSE])

NoTreePlot ==
  [exists |-> FALSE, treeLayout |-> "none", container |-> FALSE,
   size |-> DefaultSize, zoom |-> NoTransform,
   data |-> <<>>, svgSel |-> FALSE, svgs |-> 0,
   roots |-> <<>>, nodes |-> <<>>, links |-> <<>>, bound |-> FALSE]

\* TreePlot.treeLayout (setter)
TreeSetTreeLayout(tp, value) == TreeSetupElements([tp EXCEPT !.treeLayout = value])

\* TreePlot.render: binds _nodes and _links to the selections of the current
\* svg (bound); in mode none it removes the svg instead.
TreeRender(tp) ==
  IF tp.treeLayout = "none" THEN TreeDelete(tp)
  ELSE [tp EXCEPT !.bound = tp.svgSel]

\* A zoom event on the svg of the tree plot: the handler writes the transform
\* of an accepted event to the render group and does nothing else.
TreeZoomed(tp, event) ==
  IF Filter(event) THEN [tp EXCEPT !.zoom = Gestured(tp.zoom, event)] ELSE tp

\* --------------------------------------------------------------- findColormap
\* A colormap name is letters (word), then digits (NoVal without), then a rest
\* (tail); given is FALSE when no name is passed.
Name(word, digits, tail) ==
  [given |-> TRUE, word |-> word, digits |-> digits, tail |-> tail]

NoName == [given |-> FALSE, word |-> "", digits |-> NoVal, tail |-> ""]

\* The keys of schemesOrdinal and the scheme each names.
SchemesOrdinal ==
  [key \in {<<"category", NoVal>>, <<"category", 10>>, <<"accent", NoVal>>,
            <<"dark", NoVal>>, <<"dark", 1>>, <<"dark", 2>>, <<"paired", NoVal>>,
            <<"pastel", NoVal>>, <<"pastel", 1>>, <<"pastel", 2>>,
            <<"set", 1>>, <<"set", 2>>, <<"set", 3>>,
            <<"tableau", NoVal>>, <<"tableau", 10>>} |->
     CASE key[1] = "category" -> "schemeCategory10"
       [] key[1] = "accent"   -> "schemeAccent"
       [] key[1] = "dark"     -> "schemeDark2"
       [] key[1] = "paired"   -> "schemePaired"
       [] key[1] = "pastel"   -> IF key[2] = 2 THEN "schemePastel2" ELSE "schemePastel1"
       [] key[1] = "set"      -> IF key[2] = 1 THEN "schemeSet1"
                                 ELSE IF key[2] = 2 THEN "schemeSet2" ELSE "schemeSet3"
       [] key[1] = "tableau"  -> "schemeTableau10"]

\* The keys of schemesHues.
SchemesHues ==
  {"BrBG", "PRGn", "PiYG", "PuOr", "RdBu", "RdGy", "RdYlBu", "RdYlGn", "spectral",
   "BuGn", "BuPu", "GnBu", "OrRd", "PuBuGn", "PuBu", "PuRd", "RdPu", "YlGnBu",
   "YlGn", "YlOrBr", "YlOrRd",
   "blues", "greens", "greys", "oranges", "purples", "reds"}

\* The keys of interpolates.
Interpolates ==
  SchemesHues \cup {"turbo", "viridis", "inferno", "magma", "plasma", "cividis",
                    "warm", "cool", "cubehelix", "cubehelixDefault", "rainbow", "sinebow"}

DefaultColors == [kind |-> "sequential", range |-> "gray"]

\* The set of outcomes of findColormap(name).
\* inherited: property names every object inherits, which the operator "in"
\* finds too. match: name.match(/([a-zA-Z]+)(\d+)/), null (given FALSE) unless
\* digits follow letters; match[0] is the letters with the digits, without the
\* rest. The index the hues are looked up with is parseInt of the letters,
\* which is NaN: no scheme is found, and the branch falls through.
\* d3.scaleSequential(undefined) throws or returns a scale without an
\* interpolator, depending on the version of d3.
findColormap(name) ==
  LET inherited == {"constructor"}
      Plain(n) == n.digits = NoVal /\ n.tail = ""
      InOrdinal(n) ==
        \/ n.tail = "" /\ <<n.word, n.digits>> \in DOMAIN SchemesOrdinal
        \/ Plain(n) /\ n.word \in inherited
      InHues(n) == Plain(n) /\ n.word \in SchemesHues \cup inherited
      InInterpolates(n) == Plain(n) /\ n.word \in Interpolates \cup inherited
      match == IF name.word # "" /\ name.digits # NoVal
               THEN Name(name.word, name.digits, "")
               ELSE NoName
      name2 == IF match.given THEN match ELSE name
      scaleOrdinal ==
        [kind |-> "ordinal",
         range |-> IF <<name.word, name.digits>> \in DOMAIN SchemesOrdinal /\ name.tail = ""
                   THEN SchemesOrdinal[<<name.word, name.digits>>]
                   ELSE "none"]
      scaleSequential ==
        [kind |-> "sequential",
         range |-> IF name2.word \in Interpolates THEN name2.word ELSE "none"]
      scaleUndefined ==
        {[kind |-> "throws", range |-> "none"], [kind |-> "sequential", range |-> "none"]}
  IN IF ~name.given \/ (name.word = "" /\ Plain(name)) THEN {DefaultColors}
     ELSE IF InOrdinal(name) THEN {scaleOrdinal}
     ELSE IF match.given /\ ~InHues(name2) THEN scaleUndefined
     ELSE IF InInterpolates(name2) THEN {scaleSequential}
     ELSE {DefaultColors}

\* ---------------------------------------------------------------- EventDriver
\* The listeners of one event: the entries of the Set in insertion order. An
\* entry keeps its place when it is deleted (live FALSE), with the number of
\* times its listener has been invoked and the number of notify calls made
\* while it was in the Set. The listener function fn either does nothing
\* ("plain") or calls notify of the same event again ("renotify"), which it
\* does only when it is not running inside a nested notify already.
MaxListeners == 3
MaxNotifies == 2
MaxDepth == 1

NoDriver == [entries |-> <<>>, notifies |-> 0]

\* once(event, listener) and on(event, listener)
DriverOnce(d, fn) ==
  [d EXCEPT !.entries = Append(@, [fn |-> fn, once |-> TRUE, live |-> TRUE,
                                   invoked |-> 0, notified |-> 0])]
DriverOn(d, fn) ==
  [d EXCEPT !.entries = Append(@, [fn |-> fn, once |-> FALSE, live |-> TRUE,
                                   invoked |-> 0, notified |-> 0])]

\* off(event, listener): deletes every entry of that listener
DriverOff(d, fn) ==
  [d EXCEPT !.entries =
     [i \in DOMAIN @ |-> IF @[i].fn = fn THEN [@[i] EXCEPT !.live = FALSE] ELSE @[i]]]

\* notify(event) at nesting depth: forEach from position pos on visits the
\* entries that are in the Set now, in insertion order. The listener of an
\* entry runs, with whatever notify it calls, before a once entry is deleted.
RECURSIVE ForEachEntry(_, _, _)
RECURSIVE DriverNotify(_, _)
ForEachEntry(entries, pos, depth) ==
  LET toVisit == {i \in DOMAIN entries : i > pos /\ entries[i].live}
  IN IF toVisit = {} THEN entries
     ELSE LET i == CHOOSE k \in toVisit : \A j \in toVisit : k <= j
              called == [entries EXCEPT ![i].invoked = @ + 1]
              ran == IF entries[i].fn = "renotify" /\ depth < MaxDepth
                     THEN DriverNotify(called, depth + 1)
                     ELSE called
              after == IF entries[i].once THEN [ran EXCEPT ![i].live = FALSE] ELSE ran
          IN ForEachEntry(after, i, depth)

DriverNotify(entries, depth) ==
  ForEachEntry([i \in DOMAIN entries |->
                  IF entries[i].live
                  THEN [entries[i] EXCEPT !.notified = @ + 1]
                  ELSE entries[i]],
               0, depth)

\* ------------------------------------------------------------------- d3-drag
\* A drag gesture of one pointer: the id of its subject, the datum bound to
\* the element when the gesture started; live: the subject is the object of
\* that id in _data.vertices; age: 0 when the drag behaviour the gesture
\* belongs to is the one installed on the elements, otherwise the rank of its
\* behaviour among the older ones; at: the last position of the pointer;
\* alone: no other gesture has had the same subject id at the same time.
Pointers == {"mouse", "touch"}

NoGesture ==
  [active |-> FALSE, id |-> "", live |-> FALSE, age |-> 0, at |-> <<0, 0>>,
   alone |-> FALSE]

\* alphaTarget in tenths; bound: the data of the node elements are the objects
\* of _data.vertices; supplied: the records the data setter was last given, if
\* it was called during a gesture.
NoDrag ==
  [alphaTarget |-> 0, bound |-> FALSE, supplied |-> <<>>,
   gestures |-> [p \in Pointers |-> NoGesture]]

\* event.active: the gestures of the same drag behaviour that are in progress,
\* without the one of the event.
EventActive(gestures, pointer, age) ==
  Cardinality({p \in Pointers \ {pointer} : gestures[p].active /\ gestures[p].age = age})

\* .call(this.drag()): a new drag behaviour takes over the elements; every
\* gesture in progress belongs to an older one.
Aged(gestures) ==
  LET ages == {gestures[p].age + 1 : p \in {q \in Pointers : gestures[q].active}}
  IN [p \in Pointers |->
        IF gestures[p].active
        THEN [gestures[p] EXCEPT
                !.age = Cardinality({a \in ages : a <= gestures[p].age + 1})]
        ELSE gestures[p]]

\* subject.fx = fx; subject.fy = fy on the vertex of that id
WithPin(vertices, id, fx, fy) ==
  [i \in DOMAIN vertices |->
     IF vertices[i].id = id
     THEN [vertices[i] EXCEPT !.fx = fx, !.fy = fy]
     ELSE vertices[i]]

VertexOfId(vertices, id) == vertices[CHOOSE i \in DOMAIN vertices : vertices[i].id = id]

\* onDragStarted: the pin at the subject's position
OnDragStarted(vertices, id) ==
  WithPin(vertices, id, VertexOfId(vertices, id).x, VertexOfId(vertices, id).y)

\* onDragged with the pin left where it is
OnDraggedStill(vertices, id, x, y) == vertices

\* onDragged
OnDragged(vertices, id, x, y) == WithPin(vertices, id, x, y)

\* onDragEnded
OnDragEnded(vertices, id) == WithPin(vertices, id, NullVal, NullVal)

\* ------------------------------------------------------------------ GraphPlot
VARIABLES
  phase,       \* "new" before the constructor ran, "live" after, "failed" if it threw
  container,   \* _container is an element
  data,        \* _data: [vertices, edges]
  treeLayout,  \* _treeLayout
  treeData,    \* _treeData, the forest
  treePlot,    \* _treePlot
  svgSel,      \* svgSel is defined (its svg is attached to the container)
  graphSvgs,   \* svg elements this plot has attached to the container
  sel,         \* nodeSel/linkSel: defined, in the current svg, data bound to them
  simNodes,    \* forceExt.nodes(): the ids of the node objects, in order
  simLinks,    \* the links of the simulation's link force
  simIsData,   \* the node objects of the simulation are those of _data.vertices
  ticks,       \* simulation steps taken
  err,         \* what the last operation threw, "none" if it returned
  call,        \* the last operation and its arguments
  view,        \* _layout, the zoom state of the svg and of the render group, locSel
  forces,      \* _forceNode, _forceLink, _forceX, _forceY and the forces of forceExt
  clicks,      \* the click sequence in progress on a node and what it has notified
  joins,       \* the enter and exit sets of the joins, if the last operation was a render
  colormap,    \* the last name findColormap was called with and what it returned
  driver,      \* the listeners of an event of an EventDriver and what they have seen
  drag         \* the alpha target and the drag gestures in progress

vars == <<phase, container, data, treeLayout, treeData, treePlot, svgSel,
          graphSvgs, sel, simNodes, simLinks, simIsData, ticks, err, call,
          view, forces, clicks, joins, colormap, driver, drag>>

plotVars == <<phase, container, data, treeLayout, treeData, treePlot, svgSel,
              graphSvgs, sel, simNodes, simLinks, simIsData, ticks, err, call,
              view, forces, clicks, joins>>


\* ---- caller-supplied data
\* The caller-owned fields of a record come in two versions (gen).
LabelOf(v, gen) ==
  LET rank == CHOOSE i \in DOMAIN IdOrder : IdOrder[i] = v
  IN IF gen = 0 THEN rank ELSE Len(IdOrder) + 1 - rank

\* The records of one call: their version and the simulation fields they carry.
Variants == {<<0, "pinned">>, <<1, "bare">>, <<1, "placed">>}

PlacedX(v) == 2 + CHOOSE i \in DOMAIN IdOrder : IdOrder[i] = v
PlacedY(v) == 3 + CHOOSE i \in DOMAIN IdOrder : IdOrder[i] = v

\* Positions a caller gives vertices it spreads over the default viewport:
\* a at (-390, 0), b at (390, 290).
WideX(v) == -390 + 780 * ((CHOOSE i \in DOMAIN IdOrder : IdOrder[i] = v) - 1)
WideY(v) == 290 * ((CHOOSE i \in DOMAIN IdOrder : IdOrder[i] = v) - 1)

\* A record as the caller writes it: without simulation fields, with a
\* position and velocity, with a position alone, with a pin, or with the null
\* pin a drag leaves.
InVertex(v, gen, tpl) ==
  [id |-> v, label |-> LabelOf(v, gen),
   x  |-> IF tpl = "placed" THEN PlacedX(v) ELSE IF tpl = "wide" THEN WideX(v) ELSE NoVal,
   y  |-> IF tpl = "placed" THEN PlacedY(v) ELSE IF tpl = "wide" THEN WideY(v) ELSE NoVal,
   vx |-> IF tpl = "placed" THEN 1 ELSE NoVal,
   vy |-> IF tpl = "placed" THEN -1 ELSE NoVal,
   fx |-> IF tpl = "pinned" THEN 5 ELSE IF tpl = "released" THEN NullVal ELSE NoVal,
   fy |-> IF tpl = "pinned" THEN 6 ELSE IF tpl = "released" THEN NullVal ELSE NoVal]

InEdge(p, asRef) ==
  [source |-> [ref |-> asRef, id |-> p[1]], target |-> [ref |-> asRef, id |-> p[2]]]

EdgePairs(ids) == {p \in ids \X ids : p[1] # p[2]}

\* The edge lists over the ids, of at most maxEdges edges, all endpoints given
\* as ids or all as resolved references.
EdgeSeqs(ids, maxEdges, kinds) ==
  {[i \in DOMAIN ps |-> InEdge(ps[i], asRef)] :
     ps \in {SeqOfSet(S) : S \in {T \in SUBSET EdgePairs(ids) : Cardinality(T) <= maxEdges}},
     asRef \in kinds}

\* The data sets a caller supplies: the vertices are a prefix of IdOrder of at
\* most maxIds ids, the edges run between the first maxIds ids, so that an edge
\* to an id outside the prefix has a dangling endpoint.
DataSets(maxIds, maxEdges, variants, kinds) ==
  {[vertices |-> [i \in 1..n |-> InVertex(IdOrder[i], var[1], var[2])],
    edges    |-> es,
    tpl      |-> var[2]] :
     n \in 0..maxIds, var \in variants,
     es \in EdgeSeqs({IdOrder[i] : i \in 1..maxIds}, maxEdges, kinds)}

EmptyData == [vertices |-> <<>>, edges |-> <<>>]
NoSel == [defined |-> FALSE, live |-> FALSE, nodes |-> <<>>, links |-> <<>>]
FreshSel == [defined |-> TRUE, live |-> TRUE, nodes |-> <<>>, links |-> <<>>]

IdsOf(vs) == [i \in DOMAIN vs |-> vs[i].id]
\* The last call: its name, and the edges and the kind of records it was given.
Called(op, value) == [op |-> op, edges |-> value.edges, tpl |-> value.tpl]
CalledOp(op) == [op |-> op, edges |-> <<>>, tpl |-> ""]

\* ---- view, forces, clicks and joins of a plot
NoEvent == [type |-> "none", button |-> 0, dx |-> 0, dy |-> 0, factor |-> Num(1)]

\* layout: the size createSvg derives from _layout; svgZoom, groupZoom: the
\* __zoom of the svg and of the render group zoomSel; attr: the transform
\* attribute of the render group; tickT: the transform the last tick read;
\* locators: the data bound to locSel; event, ticked: the last zoom event
\* and whether its handler called tick; gestures: zoom events so far.
NoView ==
  [layout |-> DefaultSize, svgZoom |-> NoTransform, groupZoom |-> NoTransform,
   attr |-> NoTransform, tickT |-> NoTransform, locators |-> <<>>,
   event |-> NoEvent, ticked |-> FALSE, gestures |-> 0]

\* svgSel.call(zoomExt).call(zoomExt.transform, d3.zoomIdentity) on a new svg
\* with a new render group: the zoom handler writes the identity to the group
\* and ticks; the tick binds its locators to the locSel of the svg before,
\* if there is one, and locSel is then replaced by an empty selection.
FreshView(v, defined) ==
  [v EXCEPT !.svgZoom = ZoomIdentity, !.groupZoom = NoTransform,
            !.attr = ZoomIdentity,
            !.tickT = IF defined THEN ZoomIdentity ELSE @,
            !.locators = <<>>]

\* The part of GraphPlot.tick that computes the locators: nothing in a tree
\* mode and nothing without locSel and zoomSel.
Tick(v, vertices, mode, defined) ==
  IF mode # "none" \/ ~defined THEN v
  ELSE LET t == ZoomTransform(v.svgZoom, v.groupZoom)
       IN [v EXCEPT !.tickT = t, !.locators = Locators(vertices, t, v.layout)]

ForceNames == {"link", "charge", "forceX", "forceY", "x", "y"}

ForceKinds == {"charge", "link", "x", "y"}

NoForce == [kind |-> "", gen |-> NoVal]

\* The forces the constructor creates (gen 0) and registers.
DefaultForces ==
  [node |-> [kind |-> "charge", gen |-> 0],
   link |-> [kind |-> "link", gen |-> 0],
   x    |-> [kind |-> "x", gen |-> 0],
   y    |-> [kind |-> "y", gen |-> 0],
   registry |-> [n \in ForceNames |->
                   CASE n = "link"   -> [kind |-> "link", gen |-> 0]
                     [] n = "charge" -> [kind |-> "charge", gen |-> 0]
                     [] n = "forceX" -> [kind |-> "x", gen |-> 0]
                     [] n = "forceY" -> [kind |-> "y", gen |-> 0]
                     [] OTHER        -> NoForce],
   assigned |-> 0]

\* The forces the simulation applies on a step: all it has registered.
Applied(f) == {f.registry[n] : n \in {m \in ForceNames : f.registry[m] # NoForce}}

NoClicks == [detail |-> 0, single |-> 0, double |-> 0]

NoJoins ==
  [again |-> FALSE, nodeEnter |-> 0, nodeExit |-> 0, textEnter |-> 0,
   textExit |-> 0, linkEnter |-> 0, linkExit |-> 0]

\* The key function of the edge join, source + "-" + target: an endpoint that
\* is a vertex object is converted to the string "[object Object]".
EdgeKey(e) ==
  <<IF e.source.ref THEN "[object Object]" ELSE e.source.id,
    IF e.target.ref THEN "[object Object]" ELSE e.target.id>>

\* selection.data(data, key): a datum enters unless an element of its key is
\* left to take it, each element taking one datum; an element exits if an
\* element before it has its key or no datum takes it.
EnterCount(oldKeys, newKeys) ==
  Cardinality({j \in DOMAIN newKeys :
     \/ \A i \in DOMAIN oldKeys : oldKeys[i] # newKeys[j]
     \/ \E h \in 1..(j-1) : newKeys[h] = newKeys[j]})

ExitCount(oldKeys, newKeys) ==
  Cardinality({i \in DOMAIN oldKeys :
     \/ \A j \in DOMAIN newKeys : newKeys[j] # oldKeys[i]
     \/ \E h \in 1..(i-1) : oldKeys[h] = oldKeys[i]})

\* The joins of defaultRender on the selections s and the data d.
Joined(s, d, again) ==
  LET vOld == s.nodes
      vNew == IdsOf(d.vertices)
      eOld == [i \in DOMAIN s.links |-> EdgeKey(s.links[i])]
      eNew == [i \in DOMAIN d.edges |-> EdgeKey(d.edges[i])]
  IN [again |-> again,
      nodeEnter |-> EnterCount(vOld, vNew), nodeExit |-> ExitCount(vOld, vNew),
      textEnter |-> EnterCount(vOld, vNew), textExit |-> ExitCount(vOld, vNew),
      linkEnter |-> EnterCount(eOld, eNew), linkExit |-> ExitCount(eOld, eNew)]

NoColormap == [called |-> FALSE, name |-> NoName, scale |-> DefaultColors]

Init ==
  /\ phase = "new"
  /\ container = FALSE
  /\ data = EmptyData
  /\ treeLayout = "none"
  /\ treeData = <<>>
  /\ treePlot = NoTreePlot
  /\ svgSel = FALSE
  /\ graphSvgs = 0
  /\ sel = NoSel
  /\ simNodes = <<>>
  /\ simLinks = <<>>
  /\ simIsData = TRUE
  /\ ticks = 0
  /\ err = "none"
  /\ call = CalledOp("none")
  /\ view = NoView
  /\ forces = DefaultForces
  /\ clicks = NoClicks
  /\ joins = NoJoins
  /\ colormap = NoColormap
  /\ driver = NoDriver
  /\ drag = NoDrag

\* ---- the data setter's merge
\* The spread without the old record, {...rest}.
SpreadNewOnly(newVal, oldVal) == newVal

\* {...rest, ...existNode}: a key the old record has wins over the new one.
Spread(newVal, oldVal) == IF oldVal # NoVal THEN oldVal ELSE newVal

\* The merge with the spread order exchanged, {...existNode, ...rest}: a key the
\* new record has wins over the old one.
MergeNodeNewWins(node, existNode) ==
  [id |-> node.id, label |-> node.label,
   x  |-> Spread(existNode.x, node.x),   y  |-> Spread(existNode.y, node.y),
   vx |-> Spread(existNode.vx, node.vx), vy |-> Spread(existNode.vy, node.vy),
   fx |-> Spread(existNode.fx, node.fx), fy |-> Spread(existNode.fy, node.fy)]

MergeNode(node, existNode) ==
  [id |-> node.id, label |-> node.label,
   x  |-> Spread(node.x, existNode.x),   y  |-> Spread(node.y, existNode.y),
   vx |-> Spread(node.vx, existNode.vx), vy |-> Spread(node.vy, existNode.vy),
   fx |-> Spread(node.fx, existNode.fx), fy |-> Spread(node.fy, existNode.fy)]

OldNode(old, id) == old[CHOOSE i \in DOMAIN old : old[i].id = id]

MergeNodes(old, new) ==
  [i \in DOMAIN new |->
     IF new[i].id \in VertexIds(old)
     THEN MergeNode(new[i], OldNode(old, new[i].id))
     ELSE new[i]]

\* mapNew.has(edge.source as string) && mapNew.has(edge.target as string):
\* the keys of mapNew are id strings, so an object endpoint is never found.
KeepsEdge(edge, new) ==
  /\ ~edge.source.ref /\ edge.source.id \in VertexIds(new)
  /\ ~edge.target.ref /\ edge.target.id \in VertexIds(new)

FilterLinks(edges, new) == SelectSeq(edges, LAMBDA e : KeepsEdge(e, new))

\* ---- GraphPlot.setupHierarchyTree, run with the data d and the container
\* GraphPlot.setupHierarchyTree: without a container nothing happens; with one
\* the forest is rebuilt and handed to a new TreePlot, unless building it
\* never returns.
SetupHierarchyTree(hasContainer, d) ==
  IF hasContainer
  THEN LET forest == BuildTreeData(d.vertices, d.edges)
       IN IF ForestOverflows(forest)
          THEN /\ err' = "RangeError"
               /\ UNCHANGED <<treeData, treePlot>>
          ELSE /\ err' = "none"
               /\ treeData' = forest
               /\ treePlot' = NewTreePlot(forest, TRUE, view.layout)
  ELSE /\ err' = "none"
       /\ UNCHANGED <<treeData, treePlot>>

\* GraphPlot.setupSimulation on the data d, in mode none: the simulation takes
\* the arrays of d, initialises the nodes and resolves the link endpoints.
Simulated(d) ==
  [vertices |-> InitializeNodes(d.vertices), edges |-> ResolveLinks(d.edges)]

\* new GraphPlot(data, layout, container)
Construct(value, hasContainer) ==
  /\ phase = "new"
  /\ call' = Called("construct", value)
  /\ UNCHANGED <<colormap, driver, drag>>
  /\ container' = hasContainer
  /\ treeLayout' = "none"
  /\ ticks' = 0
  \* setupElements
  /\ svgSel' = hasContainer
  /\ graphSvgs' = IF hasContainer THEN 1 ELSE 0
  /\ sel' = IF hasContainer THEN FreshSel ELSE NoSel
  /\ view' = IF hasContainer THEN FreshView(NoView, FALSE) ELSE NoView
  /\ UNCHANGED <<forces, clicks>>
  /\ joins' = NoJoins
  \* setupSimulation
  /\ simIsData' = TRUE
  /\ IF LinkFails(value.edges, value.vertices)
     THEN /\ phase' = "failed"
          /\ err' = "Error"
          /\ data' = [vertices |-> InitializeNodes(value.vertices),
                      edges |-> value.edges]
          /\ simNodes' = IdsOf(data'.vertices)
          /\ simLinks' = <<>>
          /\ UNCHANGED <<treeData, treePlot>>
     ELSE /\ data' = Simulated(value)
          /\ simNodes' = IdsOf(data'.vertices)
          /\ simLinks' = data'.edges
          \* setupHierarchyTree
          /\ SetupHierarchyTree(hasContainer, data')
          /\ phase' = IF err' = "none" THEN "live" ELSE "failed"

\* set data(value)
SetData(value) ==
  /\ phase = "live"
  /\ call' = Called("setData", value)
  /\ UNCHANGED <<colormap, driver>>
  \* every stored record of an id that was there is a new object: the subject
  \* of a gesture and the data of the elements are the objects before
  /\ drag' = [drag EXCEPT !.bound = FALSE,
                          !.supplied = IF \E p \in Pointers : drag.gestures[p].active
                                       THEN value.vertices ELSE <<>>,
                          !.gestures = [p \in Pointers |-> [@[p] EXCEPT !.live = FALSE]]]
  /\ LET nodes  == MergeNodes(data.vertices, value.vertices)
         links  == FilterLinks(value.edges, value.vertices)
         stored == [vertices |-> nodes, edges |-> links]
     IN IF treeLayout = "none"
        THEN /\ data' = Simulated(stored)
             /\ simNodes' = IdsOf(data'.vertices)
             /\ simLinks' = data'.edges
             /\ simIsData' = TRUE
        ELSE /\ data' = stored
             /\ simIsData' = FALSE
             /\ UNCHANGED <<simNodes, simLinks>>
  /\ SetupHierarchyTree(container, data')
  /\ UNCHANGED <<phase, container, treeLayout, svgSel, graphSvgs, sel, ticks,
                 view, forces, clicks>>
  /\ joins' = NoJoins

\* set treeLayout(value)
SetTreeLayout(value) ==
  /\ phase = "live"
  /\ call' = CalledOp("setTreeLayout")
  /\ UNCHANGED <<colormap, driver, drag>>
  /\ treeLayout' = value
  /\ IF treePlot.exists
     THEN /\ value # "none" =>
               /\ treePlot.svgs < MaxSvg
               /\ Len(treePlot.roots) < MaxSvg * Len(treePlot.data) \/ treePlot.data = <<>>
          /\ treePlot' = TreeSetTreeLayout(treePlot, value)
          /\ err' = "none"
     ELSE /\ err' = "TypeError"
          /\ UNCHANGED treePlot
  /\ UNCHANGED <<phase, container, data, treeData, svgSel, graphSvgs, sel,
                 simNodes, simLinks, simIsData, ticks, view, forces, clicks>>
  /\ joins' = NoJoins

\* GraphPlot.delete
Deleted ==
  /\ svgSel' = FALSE
  /\ graphSvgs' = IF svgSel THEN graphSvgs - 1 ELSE graphSvgs
  /\ sel' = [sel EXCEPT !.live = FALSE]

\* set container(value)
SetContainer(value) ==
  /\ phase = "live"
  /\ call' = CalledOp("setContainer")
  /\ UNCHANGED <<colormap, driver, drag>>
  /\ container' = value
  \* setupElements
  /\ IF treeLayout # "none" THEN Deleted /\ UNCHANGED view
     ELSE IF value
     THEN /\ graphSvgs < MaxSvg
          /\ svgSel' = TRUE
          /\ graphSvgs' = graphSvgs + 1
          /\ sel' = FreshSel
          /\ view' = FreshView(view, sel.defined)
     ELSE UNCHANGED <<svgSel, graphSvgs, sel, view>>
  /\ SetupHierarchyTree(value, data)
  /\ UNCHANGED <<phase, data, treeLayout, simNodes, simLinks, simIsData, ticks,
                 forces, clicks>>
  /\ joins' = NoJoins

\* render(): defaultRender, then treeRender
Render ==
  /\ phase = "live"
  /\ call' = CalledOp("render")
  /\ UNCHANGED <<colormap, driver>>
  /\ drag' = IF treeLayout = "none" /\ sel.defined
             THEN [drag EXCEPT !.bound = TRUE, !.gestures = Aged(@)]
             ELSE drag
  /\ IF treeLayout # "none"
     THEN /\ Deleted
          /\ treePlot' = IF treePlot.exists THEN TreeRender(treePlot) ELSE treePlot
          /\ joins' = NoJoins
          /\ UNCHANGED view
     ELSE /\ sel' = IF sel.defined
                    THEN [sel EXCEPT !.nodes = IdsOf(data.vertices),
                                     !.links = data.edges]
                    ELSE sel
          /\ joins' = IF sel.defined
                      THEN Joined(sel, data, call.op = "render")
                      ELSE NoJoins
          /\ view' = Tick(view, data.vertices, treeLayout, sel.defined)
          /\ UNCHANGED <<svgSel, graphSvgs, treePlot>>
  /\ err' = "none"
  /\ UNCHANGED <<phase, container, data, treeLayout, treeData,
                 simNodes, simLinks, simIsData, ticks, forces, clicks>>

\* One step of the d3 simulation: the forces change the velocity of a node
\* that is not pinned and the node moves by it; a pinned node sits on its pin.
StepNode(n, d) ==
  [n EXCEPT !.vx = IF IsSet(n.fx) THEN 0 ELSE n.vx + d,
            !.x  = IF IsSet(n.fx) THEN n.fx ELSE n.x + n.vx + d,
            !.vy = IF IsSet(n.fy) THEN 0 ELSE n.vy - d,
            !.y  = IF IsSet(n.fy) THEN n.fy ELSE n.y + n.vy - d]

Pushes == {1}

InBounds(n) == n.x \in -MaxCoord..MaxCoord /\ n.y \in -MaxCoord..MaxCoord

SimulationStep(d) ==
  /\ phase = "live"
  /\ ticks < MaxTicks
  /\ simNodes # <<>>
  /\ call' = CalledOp("tick")
  /\ UNCHANGED <<colormap, driver, drag>>
  /\ ticks' = ticks + 1
  /\ data' = IF simIsData
             THEN [data EXCEPT !.vertices =
                     [i \in DOMAIN data.vertices |-> StepNode(data.vertices[i], d)]]
             ELSE data
  /\ \A i \in DOMAIN data'.vertices : InBounds(data'.vertices[i])
  /\ view' = Tick(view, data'.vertices, treeLayout, sel.defined)
  /\ err' = "none"
  /\ UNCHANGED <<phase, container, treeLayout, treeData, treePlot, svgSel,
                 graphSvgs, sel, simNodes, simLinks, simIsData, forces, clicks>>
  /\ joins' = NoJoins

\* set layout(value)
SetLayout(size) ==
  /\ phase = "live"
  /\ call' = CalledOp("setLayout")
  /\ UNCHANGED <<colormap, driver, drag>>
  /\ view' = [view EXCEPT !.layout = size]
  /\ err' = "none"
  /\ UNCHANGED <<phase, container, data, treeLayout, treeData, treePlot, svgSel,
                 graphSvgs, sel, simNodes, simLinks, simIsData, ticks,
                 forces, clicks>>
  /\ joins' = NoJoins

\* A pointer or wheel event on the svg of the graph plot: the zoom behaviour
\* drops it unless the filter accepts it; else it moves the __zoom of the svg
\* and emits a zoom event, whose handler writes the transform of the event to
\* the render group and calls tick.
ZoomGesture(event) ==
  /\ phase = "live"
  /\ svgSel
  /\ view.gestures < MaxGestures
  /\ call' = CalledOp("zoom")
  /\ UNCHANGED <<colormap, driver, drag>>
  /\ IF Filter(event)
     THEN LET t == Gestured(view.svgZoom, event)
          IN view' = [Tick([view EXCEPT !.svgZoom = t, !.attr = t],
                           data.vertices, treeLayout, sel.defined)
                        EXCEPT !.event = event, !.ticked = TRUE,
                               !.gestures = @ + 1]
     ELSE view' = [view EXCEPT !.event = event, !.ticked = FALSE,
                               !.gestures = @ + 1]
  /\ err' = "none"
  /\ UNCHANGED <<phase, container, data, treeLayout, treeData, treePlot, svgSel,
                 graphSvgs, sel, simNodes, simLinks, simIsData, ticks,
                 forces, clicks>>
  /\ joins' = NoJoins

\* A pointer or wheel event on the svg of the tree plot.
TreeZoomGesture(event) ==
  /\ phase = "live"
  /\ treePlot.exists /\ treePlot.svgSel
  /\ view.gestures < MaxGestures
  /\ call' = CalledOp("treeZoom")
  /\ UNCHANGED <<colormap, driver, drag>>
  /\ treePlot' = TreeZoomed(treePlot, event)
  /\ view' = [view EXCEPT !.event = event, !.ticked = FALSE, !.gestures = @ + 1]
  /\ err' = "none"
  /\ UNCHANGED <<phase, container, data, treeLayout, treeData, svgSel,
                 graphSvgs, sel, simNodes, simLinks, simIsData, ticks,
                 forces, clicks>>
  /\ joins' = NoJoins

\* zoomToFit(): the transition it starts on the render group, taken to its
\* end; every frame of it sets the __zoom of the group and emits a zoom event.
ZoomToFit ==
  /\ phase = "live"
  /\ call' = CalledOp("zoomToFit")
  /\ UNCHANGED <<colormap, driver, drag>>
  /\ LET xExtent == Extent({data.vertices[i].x : i \in DOMAIN data.vertices})
         yExtent == Extent({data.vertices[i].y : i \in DOMAIN data.vertices})
     IN IF \/ ~sel.defined \/ treeLayout # "none"
           \/ xExtent[1] = NoVal \/ yExtent[1] = NoVal
        THEN UNCHANGED view
        ELSE LET t == FitTransform(xExtent, yExtent, view.layout)
             IN view' = Tick([view EXCEPT !.groupZoom = t, !.attr = t],
                             data.vertices, treeLayout, sel.defined)
  /\ err' = "none"
  /\ UNCHANGED <<phase, container, data, treeLayout, treeData, treePlot, svgSel,
                 graphSvgs, sel, simNodes, simLinks, simIsData, ticks,
                 forces, clicks>>
  /\ joins' = NoJoins

\* set forceNode(value), set forceLink(value), set forceX(value),
\* set forceY(value), with a new force of the setter's kind.
SetForce(kind) ==
  /\ phase = "live"
  /\ forces.assigned < MaxForces
  /\ call' = CalledOp("setForce")
  /\ UNCHANGED <<colormap, driver, drag>>
  /\ LET value == [kind |-> kind, gen |-> forces.assigned + 1]
     IN forces' =
          CASE kind = "charge" ->
                 [forces EXCEPT !.node = value, !.registry["charge"] = value,
                                !.assigned = @ + 1]
            [] kind = "link" ->
                 [forces EXCEPT !.link = value, !.registry["link"] = value,
                                !.assigned = @ + 1]
            [] kind = "x" ->
                 [forces EXCEPT !.x = value, !.registry["x"] = value,
                                !.assigned = @ + 1]
            [] kind = "y" ->
                 [forces EXCEPT !.y = value, !.registry["y"] = value,
                                !.assigned = @ + 1]
  /\ err' = "none"
  \* a force the caller has just made holds no links until links() is called
  /\ simLinks' = IF kind = "link" THEN <<>> ELSE simLinks
  /\ UNCHANGED <<phase, container, data, treeLayout, treeData, treePlot, svgSel,
                 graphSvgs, sel, simNodes, simIsData, ticks,
                 view, clicks>>
  /\ joins' = NoJoins

\* A click event on a circle of nodeSel, the next of its click sequence
\* (event.detail counts the clicks of the sequence): the handler set by
\* defaultRender.
ClickNode ==
  /\ phase = "live"
  /\ sel.live /\ sel.nodes # <<>>
  /\ clicks.detail < MaxClicks
  /\ call' = CalledOp("click")
  /\ UNCHANGED <<colormap, driver, drag>>
  /\ LET detail == clicks.detail + 1
     IN clicks' = [detail |-> detail,
                   single |-> clicks.single + (IF detail = 1 THEN 1 ELSE 0),
                   double |-> clicks.double + (IF detail = 2 THEN 1 ELSE 0)]
  /\ err' = "none"
  /\ UNCHANGED <<phase, container, data, treeLayout, treeData, treePlot, svgSel,
                 graphSvgs, sel, simNodes, simLinks, simIsData, ticks,
                 view, forces>>
  /\ joins' = NoJoins

\* The click sequence ends: the next click starts a new one.
ClickPause ==
  /\ phase = "live"
  /\ clicks.detail > 0
  /\ call' = CalledOp("pause")
  /\ UNCHANGED <<colormap, driver, drag>>
  /\ clicks' = NoClicks
  /\ err' = "none"
  /\ UNCHANGED <<phase, container, data, treeLayout, treeData, treePlot, svgSel,
                 graphSvgs, sel, simNodes, simLinks, simIsData, ticks,
                 view, forces>>
  /\ joins' = NoJoins

\* ---- specifications
\* The layout and drawing interface of a plot constructed with a container, as
\* the stories construct it, on three data sets: no vertex and no edge, the
\* vertex a with a dangling edge to b, the vertices a and b with the edge.
ViewData ==
  {d \in DataSets(2, 1, {<<1, "bare">>}, {FALSE}) :
     /\ (d.vertices = <<>>) = (d.edges = <<>>)
     /\ \A i \in DOMAIN d.edges : d.edges[i].source.id = "a"}

Next ==
  \/ \E value \in ViewData : Construct(value, TRUE)
  \/ \E value \in ViewData : SetData(value)
  \/ \E value \in TreeLayouts : SetTreeLayout(value)
  \/ \E value \in BOOLEAN : SetContainer(value)
  \/ Render

Spec == Init /\ [][Next]_vars

\* The data path of the plot: every kind of record and of edge list of at most
\* MaxDataEdges edges over two ids, replaced in any order in mode none and in a
\* tree mode, with the simulation running.
InData == DataSets(2, MaxDataEdges, Variants, BOOLEAN)

NextData ==
  \/ \E value \in InData, hasContainer \in BOOLEAN : Construct(value, hasContainer)
  \/ \E value \in InData : SetData(value)
  \/ \E value \in {"none", "vertical"} : SetTreeLayout(value)
  \/ \E d \in Pushes : SimulationStep(d)

SpecData == Init /\ [][NextData]_vars

\* The vertex records of the plot: every kind of record in both versions,
\* without edges, replaced in any order in mode none and in a tree mode, with
\* the simulation running.
MergeVariants == {0, 1} \X {"bare", "placed", "pinned", "released"}

MergeData == DataSets(2, 0, MergeVariants, {FALSE})

NextMerge ==
  \/ \E value \in MergeData, hasContainer \in BOOLEAN : Construct(value, hasContainer)
  \/ \E value \in MergeData : SetData(value)
  \/ \E value \in {"none", "vertical"} : SetTreeLayout(value)
  \/ \E d \in Pushes : SimulationStep(d)

SpecMerge == Init /\ [][NextMerge]_vars

\* The forest builder on every graph of at most MaxForestEdges edges over
\* three vertices, as the constructor runs it.
ForestData == DataSets(3, MaxForestEdges, {<<1, "bare">>}, {FALSE})

NextForest ==
  \/ \E value \in ForestData, hasContainer \in BOOLEAN : Construct(value, hasContainer)
  \/ \E value \in TreeLayouts : SetTreeLayout(value)
  \/ Render

SpecForest == Init /\ [][NextForest]_vars

\* The viewport of a plot constructed with a container: vertices the
\* simulation places, vertices pinned to one point and vertices spread over the
\* viewport, under at most MaxGestures pointer and wheel events, zoomToFit and
\* two viewport sizes.
ZoomData == DataSets(2, 0, {<<1, "bare">>, <<0, "pinned">>, <<1, "wide">>}, {FALSE})

Sizes == {DefaultSize, [width |-> 400, height |-> 400]}

\* A drag with the primary button, a drag with the secondary button, a wheel
\* step that doubles the scale, and a double click.
Events ==
  {[type |-> "mousedown", button |-> 0, dx |-> 500, dy |-> 500, factor |-> Num(1)],
   [type |-> "mousedown", button |-> 0, dx |-> -20, dy |-> 0, factor |-> Num(1)],
   [type |-> "mousedown", button |-> 2, dx |-> 500, dy |-> 500, factor |-> Num(1)],
   [type |-> "wheel", button |-> 0, dx |-> 0, dy |-> 0, factor |-> Num(2)],
   [type |-> "dblclick", button |-> 0, dx |-> 0, dy |-> 0, factor |-> Num(2)]}

NextView ==
  \/ \E value \in ZoomData : Construct(value, TRUE)
  \/ \E size \in Sizes : SetLayout(size)
  \/ \E event \in Events : ZoomGesture(event)
  \/ ZoomToFit
  \/ Render

SpecView == Init /\ [][NextView]_vars

\* The pointer and wheel events on the svg of the graph plot and on the svg of
\* its tree plot, in mode none and in a tree mode.
NextGesture ==
  \/ \E value \in ViewData : Construct(value, TRUE)
  \/ \E event \in Events : ZoomGesture(event)
  \/ \E event \in Events : TreeZoomGesture(event)
  \/ \E value \in {"none", "vertical"} : SetTreeLayout(value)
  \/ Render

SpecGesture == Init /\ [][NextGesture]_vars

\* The user's clicks on the nodes and the caller's force assignments, on a plot
\* constructed with a container and rendered.
NextInput ==
  \/ \E value \in ViewData : Construct(value, TRUE)
  \/ Render
  \/ \E kind \in ForceKinds : SetForce(kind)
  \/ ClickNode
  \/ ClickPause

SpecInput == Init /\ [][NextInput]_vars

\* A call of findColormap(name)
FindColormap(name) ==
  /\ \E scale \in findColormap(name) :
        colormap' = [called |-> TRUE, name |-> name, scale |-> scale]
  /\ UNCHANGED <<plotVars, driver, drag>>

\* The colormap names: no name, the empty name, and a word of each table or of
\* none, alone or followed by digits and by a rest.
Names ==
  LET words == {"", "category", "dark", "set", "blues", "BrBG", "viridis",
                "cubehelix", "constructor", "foo"}
      digits == {1, 3, 5, 10}
  IN {NoName} \cup {Name(w, NoVal, "") : w \in words}
              \cup {Name(w, d, t) : w \in words, d \in digits, t \in {"", "x"}}

NextColors == \E name \in Names : FindColormap(name)

SpecColors == Init /\ [][NextColors]_vars

\* The calls a client makes on an EventDriver, outside of any listener.
Once(fn) ==
  /\ Len(driver.entries) < MaxListeners
  /\ driver' = DriverOnce(driver, fn)
  /\ UNCHANGED <<plotVars, colormap, drag>>

On(fn) ==
  /\ Len(driver.entries) < MaxListeners
  /\ driver' = DriverOn(driver, fn)
  /\ UNCHANGED <<plotVars, colormap, drag>>

Off(fn) ==
  /\ \E i \in DOMAIN driver.entries : driver.entries[i].live /\ driver.entries[i].fn = fn
  /\ driver' = DriverOff(driver, fn)
  /\ UNCHANGED <<plotVars, colormap, drag>>

Notify ==
  /\ driver.notifies < MaxNotifies
  /\ driver' = [entries |-> DriverNotify(driver.entries, 0),
                notifies |-> driver.notifies + 1]
  /\ UNCHANGED <<plotVars, colormap, drag>>

NextEvents ==
  \/ \E fn \in {"plain", "renotify"} : Once(fn)
  \/ \E fn \in {"plain", "renotify"} : On(fn)
  \/ \E fn \in {"plain", "renotify"} : Off(fn)
  \/ Notify

SpecEvents == Init /\ [][NextEvents]_vars

\* The position a pointer drags to.
DragPositions == {<<5, 6>>}

\* A pointer goes down on the element of a vertex: the gesture starts and
\* onDragStarted runs on the datum of the element.
DragStart(pointer, id) ==
  /\ phase = "live" /\ sel.live
  /\ \E i \in DOMAIN sel.nodes : sel.nodes[i] = id
  /\ ~drag.gestures[pointer].active
  /\ call' = CalledOp("dragStart")
  /\ LET shared == \E p \in Pointers : drag.gestures[p].active /\ drag.gestures[p].id = id
         subject == VertexOfId(data.vertices, id)
     IN /\ drag' = [drag EXCEPT
                      !.alphaTarget = IF EventActive(drag.gestures, pointer, 0) = 0 THEN 3 ELSE 10,
                      !.gestures =
                         [p \in Pointers |->
                            IF p = pointer
                            THEN [active |-> TRUE, id |-> id, live |-> drag.bound,
                                  age |-> 0,
                                  at |-> IF drag.bound THEN <<subject.x, subject.y>>
                                         ELSE <<0, 0>>,
                                  alone |-> ~shared]
                            ELSE IF @[p].active /\ @[p].id = id
                            THEN [@[p] EXCEPT !.alone = FALSE]
                            ELSE @[p]]]
        /\ data' = IF drag.bound
                   THEN [data EXCEPT !.vertices = OnDragStarted(@, id)]
                   ELSE data
  /\ err' = "none"
  /\ joins' = NoJoins
  /\ UNCHANGED <<phase, container, treeLayout, treeData, treePlot, svgSel,
                 graphSvgs, sel, simNodes, simLinks, simIsData, ticks,
                 view, forces, clicks, colormap, driver>>

\* The pointer of a gesture moves: onDragged runs on the subject.
Dragged(pointer, pos) ==
  /\ phase = "live"
  \* the listeners of a touch are those of the elements, which the behaviour
  \* installed last has replaced; those of the mouse are on the window
  /\ drag.gestures[pointer].active
  /\ pointer = "mouse" \/ drag.gestures[pointer].age = 0
  /\ call' = CalledOp("drag")
  /\ drag' = [drag EXCEPT !.gestures[pointer].at = pos]
  /\ data' = IF drag.gestures[pointer].live
             THEN [data EXCEPT !.vertices =
                     OnDragged(@, drag.gestures[pointer].id, pos[1], pos[2])]
             ELSE data
  /\ err' = "none"
  /\ joins' = NoJoins
  /\ UNCHANGED <<phase, container, treeLayout, treeData, treePlot, svgSel,
                 graphSvgs, sel, simNodes, simLinks, simIsData, ticks,
                 view, forces, clicks, colormap, driver>>

\* The pointer of a gesture goes up: the gesture ends and onDragEnded runs on
\* the subject.
DragEnd(pointer) ==
  /\ phase = "live"
  /\ drag.gestures[pointer].active
  /\ pointer = "mouse" \/ drag.gestures[pointer].age = 0
  /\ call' = CalledOp("dragEnd")
  /\ drag' = [drag EXCEPT
                !.alphaTarget =
                   IF EventActive(drag.gestures, pointer, drag.gestures[pointer].age) = 0
                   THEN 0 ELSE @,
                !.gestures[pointer] = NoGesture]
  /\ data' = IF drag.gestures[pointer].live
             THEN [data EXCEPT !.vertices = OnDragEnded(@, drag.gestures[pointer].id)]
             ELSE data
  /\ err' = "none"
  /\ joins' = NoJoins
  /\ UNCHANGED <<phase, container, treeLayout, treeData, treePlot, svgSel,
                 graphSvgs, sel, simNodes, simLinks, simIsData, ticks,
                 view, forces, clicks, colormap, driver>>

\* The plot of a caller that replaces the data and renders while the user
\* drags a vertex with the mouse: records without simulation fields, in both
\* versions, without edges.
DragData == DataSets(2, 0, {<<0, "bare">>, <<1, "bare">>}, {FALSE})

NextDrag ==
  \/ \E value \in DragData : Construct(value, TRUE)
  \/ \E value \in DragData : SetData(value)
  \/ Render
  \/ \E d \in Pushes : SimulationStep(d)
  \/ \E id \in {"a", "b"} : DragStart("mouse", id)
  \/ \E pos \in DragPositions : Dragged("mouse", pos)
  \/ DragEnd("mouse")

SpecDrag == Init /\ [][NextDrag]_vars

\* The plot of a caller that renders while the user drags vertices with the
\* mouse and a finger.
NextPointers ==
  \/ \E value \in DragData : Construct(value, TRUE)
  \/ Render
  \/ \E pointer \in Pointers, id \in {"a", "b"} : DragStart(pointer, id)
  \/ \E pointer \in Pointers, pos \in DragPositions : Dragged(pointer, pos)
  \/ \E pointer \in Pointers : DragEnd(pointer)

SpecPointers == Init /\ [][NextPointers]_vars

\* ------------------------------------------------------------------ properties
Range(s) == {s[i] : i \in DOMAIN s}

HasMotion(n) == n.x # NoVal /\ n.y # NoVal /\ n.vx # NoVal /\ n.vy # NoVal

Pinned(n) == IsSet(n.fx) \/ IsSet(n.fy)

SameMotion(n, m) == n.x = m.x /\ n.y = m.y /\ n.vx = m.vx /\ n.vy = m.vy

\* C1 as stated: after every call of the data setter, each vertex whose id is
\* in the previous and in the new vertex set has, in the stored data, exactly
\* the x, y, vx and vy of the previous record.
C1_PositionContinuity ==
  [][call'.op = "setData" =>
       \A i \in DOMAIN data'.vertices :
          data'.vertices[i].id \in VertexIds(data.vertices) =>
             SameMotion(data'.vertices[i],
                        OldNode(data.vertices, data'.vertices[i].id))]_vars

\* C1 amended: after every call of the data setter, each vertex whose id is
\* in the previous and in the new vertex set, whose previous record holds an
\* x, y, vx and vy, and whose stored record carries no pin (fx, fy), has in
\* the stored data exactly the x, y, vx and vy of the previous record,
\* whatever x, y, vx and vy the new record carries.
C1_PositionContinuityOfPlacedUnpinned ==
  [][call'.op = "setData" =>
       \A i \in DOMAIN data'.vertices :
          (/\ data'.vertices[i].id \in VertexIds(data.vertices)
           /\ HasMotion(OldNode(data.vertices, data'.vertices[i].id))
           /\ ~Pinned(data'.vertices[i])) =>
             SameMotion(data'.vertices[i],
                        OldNode(data.vertices, data'.vertices[i].id))]_vars

\* C1 witness: the data setter was given records that carry their own x, y,
\* vx and vy, and an unpinned stored record holds another position and a
\* velocity the caller never supplies: those of the previous record, moved by
\* the simulation.
C1_Witness ==
  /\ call.op = "setData" /\ call.tpl = "placed"
  /\ \E i \in DOMAIN data.vertices :
        /\ ~Pinned(data.vertices[i])
        /\ data.vertices[i].x # PlacedX(data.vertices[i].id)
        /\ data.vertices[i].vx \notin {0, 1}

\* An edge list as the pairs of vertex ids its edges join, whichever way the
\* endpoints are given.
EndpointIds(edges) == [i \in DOMAIN edges |-> <<edges[i].source.id, edges[i].target.id>>]

JoinsVertices(e, vertices) ==
  e.source.id \in VertexIds(vertices) /\ e.target.id \in VertexIds(vertices)

\* C2: the data setter returns without error and the edges it stores are
\* exactly the edges it was given whose two endpoints, given as ids or as
\* resolved references, are vertices of the new vertex set.
C2_KeepsEdgesBetweenNewVertices ==
  call.op = "setData" =>
     /\ err = "none"
     /\ EndpointIds(data.edges) =
          EndpointIds(SelectSeq(call.edges, LAMBDA e : JoinsVertices(e, data.vertices)))

\* C3: from construction on, no operation has thrown the link force's "node
\* not found" error, and every edge held in the data and every link of the
\* simulation has both endpoints among the current vertices.
C3_NoDanglingEdge ==
  phase # "new" =>
     /\ err # "Error"
     /\ \A i \in DOMAIN data.edges : JoinsVertices(data.edges[i], data.vertices)
     /\ \A i \in DOMAIN simLinks : JoinsVertices(simLinks[i], data.vertices)

\* C4: whenever the layout mode is none, the vertices the force simulation
\* tracks are exactly the vertices of the current data.
C4_SimulationTracksData ==
  (phase = "live" /\ treeLayout = "none") =>
     Range(simNodes) = VertexIds(data.vertices)

\* C5: the layout mode of the GraphPlot is the layout mode of the tree plot it
\* delegates tree rendering to.
C5_OneLayoutMode ==
  (phase = "live" /\ treePlot.exists) => treePlot.treeLayout = treeLayout

\* What a tree plot derives from its forest when it lays it out once.
LaidOutOnce(tp) ==
  TreeSetupElements([NewTreePlot(tp.data, tp.container, tp.size) EXCEPT !.treeLayout = tp.treeLayout])

\* C6: after a treeLayout assignment a tree plot of a forest that is not empty
\* has at most one svg in the container, and in a tree mode its root, node and
\* link lists are those of the forest laid out once in that mode.
C6_SwitchRebuildsGeometry ==
  (call.op = "setTreeLayout" /\ treePlot.exists /\ treePlot.data # <<>>) =>
     /\ treePlot.svgs <= 1
     /\ treePlot.treeLayout # "none" =>
          /\ treePlot.roots = LaidOutOnce(treePlot).roots
          /\ treePlot.nodes = LaidOutOnce(treePlot).nodes
          /\ treePlot.links = LaidOutOnce(treePlot).links

\* C7: after render() in mode none on a plot with a container, whatever tree
\* modes the plot went through before, the force-directed drawing is attached
\* to the container and its selections show the current vertices and edges.
C7_RenderAfterRoundTrip ==
  (call.op = "render" /\ phase = "live" /\ container /\ treeLayout = "none") =>
     /\ svgSel
     /\ sel.defined /\ sel.live
     /\ sel.nodes = IdsOf(data.vertices)
     /\ sel.links = data.edges

HasIncomingEdge(vertex, edges) ==
  \E i \in DOMAIN edges : edges[i].target.id = vertex.id

\* C8: the roots of the forest are the vertices of the current data without
\* an incoming edge, in the order of the data, whether the endpoints of the
\* stored edges are ids or resolved references.
C8_RootsHaveNoIncomingEdge ==
  (phase = "live" /\ container /\ err = "none") =>
     IdsOf(treeData) =
       IdsOf(SelectSeq(data.vertices, LAMBDA v : ~HasIncomingEdge(v, data.edges)))

\* C11 as stated: a tree plot that has laid out an empty forest in a tree mode
\* has thrown nothing, holds no node and no link, and its content box has
\* width 0 and height 0.
C11_EmptyForestBoxIsZero ==
  (phase = "live" /\ call.op = "setTreeLayout" /\ treePlot.exists
     /\ treePlot.data = <<>> /\ treePlot.treeLayout # "none") =>
     /\ err = "none"
     /\ treePlot.nodes = <<>> /\ treePlot.links = <<>>
     /\ ContentBox(treePlot).contentWidth = 0
     /\ ContentBox(treePlot).contentHeight = 0

\* C11 amended: a tree plot that has laid out an empty forest in a tree mode
\* has thrown nothing, holds no root, no node and no link, and its content box
\* is the padding alone: width 200 and height 200, in radial mode height 0.
C11_EmptyForestBoxIsPadding ==
  (phase = "live" /\ call.op = "setTreeLayout" /\ treePlot.exists
     /\ treePlot.data = <<>> /\ treePlot.treeLayout # "none") =>
     /\ err = "none"
     /\ treePlot.roots = <<>> /\ treePlot.nodes = <<>> /\ treePlot.links = <<>>
     /\ ContentBox(treePlot).contentWidth = 200
     /\ ContentBox(treePlot).contentHeight =
          (IF treePlot.treeLayout = "radial/circular" THEN 0 ELSE 200)

\* C11 witness: the tree plot of an empty forest has been switched to the
\* radial mode and has drawn its svg.
C11_Witness ==
  /\ call.op = "setTreeLayout" /\ treePlot.exists /\ treePlot.svgSel
  /\ treePlot.data = <<>> /\ treePlot.treeLayout = "radial/circular"

\* The pairs of ids joined by a directed path of edges.
ReachPairs(edges) ==
  LET E == Range(EndpointIds(edges))
      F[n \in 0..Len(edges)] ==
        IF n = 0 THEN E
        ELSE F[n-1] \cup {<<pq[1][1], pq[2][2]>> :
                             pq \in {r \in F[n-1] \X E : r[1][2] = r[2][1]}}
  IN F[Len(edges)]

Acyclic(edges) == \A p \in ReachPairs(edges) : p[1] # p[2]

\* Every occurrence of a vertex in the forest, with the id of its parent.
Occurrences(forest) ==
  Descendants([i \in DOMAIN forest |-> [tree |-> forest[i], parent |-> ""]])

\* C9: the forest built from an acyclic graph contains no vertex twice, and
\* every vertex with an incoming edge occurs in it under exactly one parent.
C9_ForestHasNoDuplicate ==
  (phase = "live" /\ container /\ Acyclic(data.edges)) =>
     LET all == Occurrences(treeData)
     IN /\ \A i, j \in DOMAIN all : all[i].id = all[j].id => i = j
        /\ \A k \in DOMAIN data.vertices :
              HasIncomingEdge(data.vertices[k], data.edges) =>
                 Cardinality({i \in DOMAIN all : /\ all[i].id = data.vertices[k].id
                                                  /\ all[i].parent # ""}) = 1

\* C10: building the forest returns for every graph, cyclic or not: no
\* operation ends in the engine's RangeError.
C10_ForestBuildTerminates == err # "RangeError"

\* The last operation ended with a tick that computed the locators.
JustTicked ==
  /\ treeLayout = "none" /\ sel.defined
  /\ \/ call.op = "render"
     \/ call.op = "zoom" /\ view.ticked
     \/ call.op = "zoomToFit" /\ data.vertices # <<>>

HasPosition(v) == v.x # NoVal /\ v.y # NoVal

LocatorCount(id) ==
  Cardinality({i \in DOMAIN view.locators : view.locators[i].id = id})

\* The disc of radius r about the screen point: all of it is in the viewport,
\* all of it is beyond one edge of the viewport.
FullyInside(sx, sy, r, size) ==
  /\ Leq(Frac(-size.width, 2), Plus(sx, Num(-r)))
  /\ Leq(Plus(sx, Num(r)), Frac(size.width, 2))
  /\ Leq(Frac(-size.height, 2), Plus(sy, Num(-r)))
  /\ Leq(Plus(sy, Num(r)), Frac(size.height, 2))

FullyOutside(sx, sy, r, size) ==
  \/ Less(Plus(sx, Num(r)), Frac(-size.width, 2))
  \/ Leq(Frac(size.width, 2), Plus(sx, Num(-r)))
  \/ Less(Plus(sy, Num(r)), Frac(-size.height, 2))
  \/ Leq(Frac(size.height, 2), Plus(sy, Num(-r)))

\* C12 as stated: after a tick, a vertex with a position has no locator exactly
\* when its screen point inflated by the radius lies fully within the
\* viewport, and every other vertex has exactly one locator, keyed by its id.
C12_LocatorUnlessFullyInside ==
  JustTicked =>
    \A i \in DOMAIN data.vertices :
       LET v == data.vertices[i]
       IN HasPosition(v) =>
            LocatorCount(v.id) =
              (IF FullyInside(ScreenX(v, view.tickT), ScreenY(v, view.tickT),
                              FillRadius, view.layout) THEN 0 ELSE 1)

\* C12 amended: after a tick, a vertex with a position has exactly one locator,
\* keyed by its id, exactly when its screen point inflated by the radius lies
\* wholly beyond one edge of the viewport (right of x + r = -w/2 counts as
\* visible, x - r = w/2 as beyond; the same for y); a vertex that is partly or
\* fully inside, and a vertex without a position, has none.
C12_LocatorWhenFullyOutside ==
  JustTicked =>
    /\ \A i \in DOMAIN data.vertices :
          LET v == data.vertices[i]
          IN LocatorCount(v.id) =
               (IF HasPosition(v)
                   /\ FullyOutside(ScreenX(v, view.tickT), ScreenY(v, view.tickT),
                                   FillRadius, view.layout) THEN 1 ELSE 0)
    /\ Len(view.locators) <= Len(data.vertices)

\* C12 witness: a tick has left without a locator a vertex whose disc is
\* partly outside the viewport.
C12_Witness ==
  /\ JustTicked
  /\ \E i \in DOMAIN data.vertices :
        LET v == data.vertices[i]
            sx == ScreenX(v, view.tickT)
            sy == ScreenY(v, view.tickT)
        IN /\ ~FullyInside(sx, sy, FillRadius, view.layout)
           /\ ~FullyOutside(sx, sy, FillRadius, view.layout)
           /\ LocatorCount(v.id) = 0

VertexOf(id) == data.vertices[CHOOSE i \in DOMAIN data.vertices : data.vertices[i].id = id]

C14_TickUsesGroupTransform ==
  (JustTicked /\ call.op \in {"zoom", "zoomToFit"}) =>
     /\ view.tickT = view.attr
     /\ view.locators = Locators(data.vertices, view.attr, view.layout)

XExtent(vertices) == Extent({vertices[i].x : i \in DOMAIN vertices})

YExtent(vertices) == Extent({vertices[i].y : i \in DOMAIN vertices})

ZeroExtent(vertices) ==
  /\ XExtent(vertices)[1] = XExtent(vertices)[2]
  /\ YExtent(vertices)[1] = YExtent(vertices)[2]

\* C15: zoomToFit on vertices whose bounding box has no extent (no vertex, one
\* vertex, all vertices on one point) changes neither the transform of the svg
\* nor that of the render group, and the scale in use stays above 0 and finite.
C15_FitOfZeroExtentIsNoOp ==
  [][(call'.op = "zoomToFit" /\ treeLayout = "none" /\ sel.defined
        /\ ZeroExtent(data.vertices)) =>
       /\ view'.svgZoom = view.svgZoom
       /\ view'.groupZoom = view.groupZoom
       /\ view'.attr = view.attr
       /\ IsFinite(view'.attr.k) /\ IsFinite(view'.attr.x) /\ IsFinite(view'.attr.y)
       /\ Less(Num(0), view'.attr.k)]_vars

\* C16: after zoomToFit on vertices whose bounding box has a width and a
\* height, every vertex is drawn inside the viewport: its position under the
\* transform of the render group is within half the width and half the height
\* of the centre.
C16_FitShowsEveryVertex ==
  (call.op = "zoomToFit" /\ treeLayout = "none" /\ sel.defined
     /\ XExtent(data.vertices)[1] < XExtent(data.vertices)[2]
     /\ YExtent(data.vertices)[1] < YExtent(data.vertices)[2]) =>
     \A i \in DOMAIN data.vertices :
        /\ Leq(MathAbs(ScreenX(data.vertices[i], view.attr)), Frac(view.layout.width, 2))
        /\ Leq(MathAbs(ScreenY(data.vertices[i], view.attr)), Frac(view.layout.height, 2))

\* The transforms of the graph plot and of the tree plot.
Transforms(v, tp) == <<v.svgZoom, v.groupZoom, v.attr, tp.zoom>>

\* C17 as stated: an event with a button other than the primary or of type
\* dblclick changes no transform; every other event on the svg of the graph
\* plot or of the tree plot changes the transform of its render group and
\* calls tick.
C17_AcceptedGestureTicks ==
  [][call'.op \in {"zoom", "treeZoom"} =>
       IF view'.event.button # 0 \/ view'.event.type = "dblclick"
       THEN Transforms(view', treePlot') = Transforms(view, treePlot)
       ELSE /\ view'.ticked
            /\ IF call'.op = "zoom"
               THEN view'.attr # view.attr /\ view'.attr = view'.svgZoom
               ELSE treePlot'.zoom # treePlot.zoom]_vars

\* C17 amended: an event with a button other than the primary or of type
\* dblclick changes no transform; every other event on the svg of the graph
\* plot changes the transform of its render group and calls tick; every other
\* event on the svg of the tree plot changes the transform of the tree plot's
\* render group, leaves that of the graph plot alone and calls no tick.
C17_AcceptedGestureTransforms ==
  [][call'.op \in {"zoom", "treeZoom"} =>
       IF view'.event.button # 0 \/ view'.event.type = "dblclick"
       THEN Transforms(view', treePlot') = Transforms(view, treePlot)
       ELSE IF call'.op = "zoom"
            THEN /\ view'.ticked
                 /\ view'.attr # view.attr /\ view'.attr = view'.svgZoom
                 /\ treePlot'.zoom = treePlot.zoom
            ELSE /\ ~view'.ticked
                 /\ treePlot'.zoom # treePlot.zoom
                 /\ view'.attr = view.attr /\ view'.svgZoom = view.svgZoom]_vars

\* C17 witness: the graph plot has taken a wheel step and ticked, and its tree
\* plot, laid out in a tree mode, has then taken a drag that has moved its
\* transform by the pointer's movement.
C17_Witness ==
  /\ call.op = "treeZoom" /\ view.event.type = "mousedown" /\ view.event.button = 0
  /\ view.svgZoom.k = Num(2) /\ view.attr = view.svgZoom
  /\ treePlot.svgSel /\ treePlot.zoom.k = TreeInitialZoom(treePlot).k
  /\ treePlot.zoom.x = Plus(TreeInitialZoom(treePlot).x, Num(500))

\* C18: when the second click of a click sequence on a node has been handled,
\* the sequence has notified doubleClickNode once and singleClickNode never.
C18_DoubleClickNotifiesDoubleOnly ==
  clicks.detail = 2 => clicks.double = 1 /\ clicks.single = 0

\* C19: a render in mode none that directly follows a render has no entering
\* and no exiting element among the nodes, the labels and the edges.
C19_SecondRenderJoinsNothing ==
  (call.op = "render" /\ treeLayout = "none" /\ sel.defined /\ joins.again) =>
     /\ joins.nodeEnter = 0 /\ joins.nodeExit = 0
     /\ joins.textEnter = 0 /\ joins.textExit = 0
     /\ joins.linkEnter = 0 /\ joins.linkExit = 0

\* The force last assigned to the field of a kind.
FieldOf(f, kind) ==
  CASE kind = "charge" -> f.node [] kind = "link" -> f.link
    [] kind = "x" -> f.x [] kind = "y" -> f.y

\* C20: after a force setter, the simulation applies exactly one force of each
\* of the four kinds, and it is the force last assigned to the field of that
\* kind.
C20_OneForcePerKind ==
  call.op = "setForce" =>
     \A kind \in ForceKinds :
        {f \in Applied(forces) : f.kind = kind} = {FieldOf(forces, kind)}

\* C21: after the forceLink setter has installed a new link force, in mode
\* none the links of the simulation's link force join the same vertices as the
\* edges of the current data.
C21_NewLinkForceHasEdges ==
  (call.op = "setForce" /\ forces.link.gen = forces.assigned /\ treeLayout = "none") =>
     EndpointIds(simLinks) = EndpointIds(data.edges)

\* C30: whenever the forest has been built without error, every vertex of the
\* current data occurs at least once in the forest.
C30_ForestHoldsEveryVertex ==
  (phase = "live" /\ container /\ err = "none") =>
     \A k \in DOMAIN data.vertices :
        \E i \in DOMAIN Occurrences(treeData) :
           Occurrences(treeData)[i].id = data.vertices[k].id

\* C24: on a plot constructed without a container, an update operation
\* (assigning data or treeLayout, a simulation step) completes without an
\* error, and an assignment of treeLayout leaves a layout mode recorded.
C24_UpdatesWithoutContainer ==
  (phase = "live" /\ ~container /\ call.op \in {"setData", "setTreeLayout", "tick"}) =>
     /\ err = "none"
     /\ treeLayout \in TreeLayouts

\* The length a tree laid out in a mode takes along the axis the trees are
\* stacked on.
StackExtent(layout) ==
  IF layout = "vertical" THEN TreeSize(layout).treeHeight ELSE TreeSize(layout).treeWidth

\* Two root entries are apart: in radial mode their circles do not intersect,
\* in the other modes their ranges along the stacking axis are disjoint.
Apart(r1, r2) ==
  IF r1.layout = "radial/circular"
  THEN Abs(r1.offset - r2.offset) > 2 * TreeRadius(r1.layout)
  ELSE \/ r1.offset + StackExtent(r1.layout) < r2.offset
       \/ r2.offset + StackExtent(r2.layout) < r1.offset

\* C26: in a tree plot that has laid out its forest once in a tree mode, any
\* two trees are apart.
C26_OffsetSeparatesTrees ==
  (/\ phase = "live" /\ treePlot.exists /\ treePlot.treeLayout # "none"
   /\ Len(treePlot.roots) = Len(treePlot.data)
   /\ \A i \in DOMAIN treePlot.roots : treePlot.roots[i].layout = treePlot.treeLayout) =>
     \A i, j \in DOMAIN treePlot.roots :
        i < j => Apart(treePlot.roots[i], treePlot.roots[j])

\* A recognised colormap name: a key of one of the three tables, or a key of
\* the hue schemes followed by a number of colours.
Recognised(name) ==
  /\ name.given
  /\ name.tail = ""
  /\ \/ <<name.word, name.digits>> \in DOMAIN SchemesOrdinal
     \/ name.word \in Interpolates

\* C23: findColormap returns the gray fallback scale when no name is given and
\* for a name that is not recognised, and it never throws or returns a scale
\* without a colour range or interpolator.
C23_FallbackForUnknownName ==
  colormap.called =>
     /\ ~Recognised(colormap.name) => colormap.scale = DefaultColors
     /\ colormap.scale.kind # "throws"
     /\ colormap.scale.range # "none"

\* C22: a registration made with once has been invoked at most once, and a
\* registration made with on has been invoked once for every notify made while
\* it was registered.
C22_OnceFiresOnce ==
  \A i \in DOMAIN driver.entries :
     IF driver.entries[i].once
     THEN driver.entries[i].invoked <= 1
     ELSE driver.entries[i].invoked = driver.entries[i].notified

ActiveGestures == {p \in Pointers : drag.gestures[p].active}

\* C25: while a drag gesture is in progress the alpha target of the simulation
\* is positive, and after the drag-end callback of the last gesture in
\* progress it is 0.
C25_CoolsDownAfterLastDrag ==
  /\ ActiveGestures # {} => drag.alphaTarget > 0
  /\ (call.op = "dragEnd" /\ ActiveGestures = {}) => drag.alphaTarget = 0

\* A gesture whose subject is the vertex of its id in the current data and
\* that has had that vertex to itself.
Undisturbed(g) == g.active /\ g.live /\ g.alone

\* C27: through every step, the vertex of a gesture in progress that no data
\* replacement and no other gesture has disturbed is pinned at the position of
\* the pointer, which at the start is the vertex's own position; a simulation
\* step leaves the vertex on its pin; and the drag-end callback of such a
\* gesture leaves the vertex without a pin.
C27_DragPinsVertex ==
  [][\A p \in Pointers :
        /\ Undisturbed(drag'.gestures[p]) =>
             LET g == drag'.gestures[p]
                 v == VertexOfId(data'.vertices, g.id)
             IN /\ v.fx = g.at[1] /\ v.fy = g.at[2]
                /\ call'.op = "dragStart" /\ ~drag.gestures[p].active =>
                      v.fx = VertexOfId(data.vertices, g.id).x
                      /\ v.fy = VertexOfId(data.vertices, g.id).y
                /\ call'.op = "tick" => v.x = v.fx /\ v.y = v.fy
        /\ (Undisturbed(drag.gestures[p]) /\ ~drag'.gestures[p].active) =>
             ~Pinned(VertexOfId(data'.vertices, drag.gestures[p].id))]_vars

\* C27 witness: a simulation step has run during a gesture that has moved the
\* pin, and the vertex sits on the pin.
C27_Witness ==
  /\ call.op = "tick"
  /\ Undisturbed(drag.gestures["mouse"])
  /\ drag.gestures["mouse"].at \in DragPositions
  /\ VertexOfId(data.vertices, drag.gestures["mouse"].id).x = drag.gestures["mouse"].at[1]

\* C28: when the data setter is called during a gesture whose subject, a
\* vertex of the data, is pinned, and the new records hold the id of the
\* subject without a pin, the stored record of that id has the pin of the
\* record before and the id and label of the new record.
C28_MergeCarriesPin ==
  [][call'.op = "setData" =>
       \A p \in Pointers :
          (/\ drag.gestures[p].active /\ drag.gestures[p].live
           /\ Pinned(VertexOfId(data.vertices, drag.gestures[p].id))
           /\ drag.gestures[p].id \in VertexIds(drag'.supplied)
           /\ ~Pinned(VertexOfId(drag'.supplied, drag.gestures[p].id))) =>
             LET old == VertexOfId(data.vertices, drag.gestures[p].id)
                 new == VertexOfId(drag'.supplied, drag.gestures[p].id)
                 stored == VertexOfId(data'.vertices, drag.gestures[p].id)
             IN /\ stored.fx = old.fx /\ stored.fy = old.fy
                /\ stored.id = new.id /\ stored.label = new.label]_vars

\* C28 witness: the data setter has been called during a gesture with records
\* that carry no pin, and the stored record of the dragged id is pinned.
C28_Witness ==
  /\ call.op = "setData"
  /\ \E p \in Pointers :
        /\ drag.gestures[p].active
        /\ drag.gestures[p].id \in VertexIds(drag.supplied)
        /\ ~Pinned(VertexOfId(drag.supplied, drag.gestures[p].id))
        /\ Pinned(VertexOfId(data.vertices, drag.gestures[p].id))

\* C29: when no gesture is in progress no vertex of the current data is
\* pinned, and during a gesture the pin of the vertex of the dragged id in the
\* current data is at the position of the pointer.
C29_PinnedOnlyWhileDragged ==
  /\ ActiveGestures = {} => \A i \in DOMAIN data.vertices : ~Pinned(data.vertices[i])
  /\ \A p \in ActiveGestures :
        drag.gestures[p].id \in VertexIds(data.vertices) =>
           /\ VertexOfId(data.vertices, drag.gestures[p].id).fx = drag.gestures[p].at[1]
           /\ VertexOfId(data.vertices, drag.gestures[p].id).fy = drag.gestures[p].at[2]

====
